---------------------------- MODULE Spec2Model ----------------------------
(***************************************************************************)
(* Model of src/train_resnet_cifar10.py: the epoch loop of run_training,   *)
(* the checkpoint save/resume bookkeeping, and the running-average metric  *)
(* computation of train_one_epoch / evaluate.                              *)
(*                                                                         *)
(* Abstractions.                                                           *)
(*  - Model parameters are the sequence of (1-based) epochs whose training *)
(*    pass has been applied to them; a fresh model is <<>>.                *)
(*  - The learning rate lr * gamma^d is kept as d, the number of decays.   *)
(*  - Metric values are exact rationals <<num, den>> in lowest terms;      *)
(*    floating-point rounding is not modelled.                             *)
(*  - torch.optim.lr_scheduler.StepLR is modelled by its documented        *)
(*    chainable behaviour (constructor performs the initial step).         *)
(***************************************************************************)
EXTENDS Integers, Sequences, FiniteSets

\* ------------------------------------------------------------------ bounds
MaxEpochs == 4
MaxInvocations == 2
MaxStepSize == 2
ValSize == 10
BatchSize == 4
MaxSamples == 5
MaxBatch == 3
MaxLoss == 1

\* --------------------------------------------------------------- rationals
RECURSIVE GCD(_, _)
GCD(a, b) == IF b = 0 THEN a ELSE GCD(b, a % b)

R(n, d) == IF n = 0 THEN <<0, 1>> ELSE <<n \div GCD(n, d), d \div GCD(n, d)>>

RAdd(a, b) == R(a[1] * b[2] + b[1] * a[2], a[2] * b[2])

RMul(a, b) == R(a[1] * b[1], a[2] * b[2])

RDivInt(a, k) == R(a[1], a[2] * k)

RLess(a, b) == a[1] * b[2] < b[1] * a[2]

RLeq(a, b) == a[1] * b[2] <= b[1] * a[2]

RMax(a, b) == IF RLess(a, b) THEN b ELSE a

Zero == R(0, 1)

One == R(1, 1)

\* ------------------------------------------------------------ data loading
\* Batch sizes a DataLoader yields for a dataset of n examples: drop_last is
\* left at its default (False), so the last batch may be ragged.
RECURSIVE BatchSizes(_, _)
BatchSizes(n, b) ==
    IF n = 0 THEN <<>>
    ELSE IF n <= b THEN <<n>>
    ELSE <<b>> \o BatchSizes(n - b, b)

\* All outcomes of one pass over batches of the given sizes: per batch its
\* size, the number of correct predictions and the criterion's (mean) loss.
RECURSIVE BatchOutcomes(_)
BatchOutcomes(sizes) ==
    IF sizes = <<>> THEN {<<>>}
    ELSE { <<[n |-> sizes[1], correct |-> c, loss |-> l]>> \o rest :
              c \in 0..sizes[1], l \in 0..MaxLoss,
              rest \in BatchOutcomes(Tail(sizes)) }

\* ----------------------------------------------------------------- metrics
\* accuracy(): mean over the batch of (argmax == target).
accuracy(batch) == R(batch.correct, batch.n)

\* Faulty variant: the batch value is added without its weight.
BatchTermUnweighted(value, size) == value

\* One batch's contribution to a running total: value * images.size(0).
BatchTerm(value, size) == RMul(value, R(size, 1))

RECURSIVE RunningLoss(_)
RunningLoss(batches) ==
    IF batches = <<>> THEN Zero
    ELSE RAdd(BatchTerm(R(batches[1].loss, 1), batches[1].n),
              RunningLoss(Tail(batches)))

RECURSIVE RunningAcc(_)
RunningAcc(batches) ==
    IF batches = <<>> THEN Zero
    ELSE RAdd(BatchTerm(accuracy(batches[1]), batches[1].n),
              RunningAcc(Tail(batches)))

\* The metrics train_one_epoch returns; loader = [dataset_len, batches].
train_one_epoch(loader) ==
    [loss |-> RDivInt(RunningLoss(loader.batches), loader.dataset_len),
     acc  |-> RDivInt(RunningAcc(loader.batches), loader.dataset_len)]

\* The metrics evaluate returns.
evaluate(loader) ==
    [loss |-> RDivInt(RunningLoss(loader.batches), loader.dataset_len),
     acc  |-> RDivInt(RunningAcc(loader.batches), loader.dataset_len)]


\* ------------------------------------------------------- run configuration
\* Values of --resume tried: no flag, the two slots of the output directory,
\* and four files outside it (missing, undecodable, or lacking one key).
None == "none"

ResumeChoices ==
    {None, "latest", "best", "absent", "corrupt", "no_epoch", "no_model", "no_optim"}

EpochChoices == {MaxEpochs - 1, MaxEpochs}

StepSizeChoices == 1..MaxStepSize

\* Numbers of correct validation predictions tried per epoch.
CorrectLevels == {0, 4, 5, 6}

Min(a, b) == IF a <= b THEN a ELSE b

RECURSIVE Distribute(_, _)
Distribute(k, sizes) ==
    IF sizes = <<>> THEN <<>>
    ELSE <<[n |-> sizes[1], correct |-> Min(k, sizes[1]), loss |-> 0]>>
         \o Distribute(k - Min(k, sizes[1]), Tail(sizes))

\* One pass over the validation DataLoader per level of CorrectLevels.
ValLoaders ==
    { [dataset_len |-> ValSize,
       batches |-> Distribute(k, BatchSizes(ValSize, BatchSize))] :
      k \in CorrectLevels }

\* --------------------------------------------------------- checkpoint files
AllFields == {"epoch", "model_state", "optimizer_state", "best_acc"}

\* torch.optim.SGD(...): learning rate undecayed, no momentum accumulated.
SGD == [lr_decays |-> 0, updates |-> 0]

\* build_model(): fresh parameters, training mode.
build_model == [params |-> <<>>, training |-> TRUE]

NoFile ==
    [exists |-> FALSE, readable |-> FALSE, fields |-> {}, epoch |-> 0,
     model_state |-> <<>>, optimizer_state |-> SGD, best_acc |-> Zero,
     observed |-> Zero]

\* Faulty variant: the 0-based loop index is stored as the epoch.
CheckpointStateZeroBased(ep, m, opt, best, obs) ==
    [exists |-> TRUE, readable |-> TRUE, fields |-> AllFields, epoch |-> ep,
     model_state |-> m.params, optimizer_state |-> opt, best_acc |-> best,
     observed |-> obs]

\* The dictionary run_training hands to save_checkpoint.  "observed" is a
\* history field (not read by the program): the best validation accuracy
\* of the epochs that led to model_state.
CheckpointState(ep, m, opt, best, obs) ==
    [exists |-> TRUE, readable |-> TRUE, fields |-> AllFields, epoch |-> ep + 1,
     model_state |-> m.params, optimizer_state |-> opt, best_acc |-> best,
     observed |-> obs]

\* Faulty variant: an existing file is not overwritten.
save_checkpointKeepsExisting(files, state, slot) ==
    IF files[slot].exists THEN files ELSE [files EXCEPT ![slot] = state]

\* save_checkpoint: torch.save overwrites the slot with the whole state.
save_checkpoint(files, state, slot) == [files EXCEPT ![slot] = state]

\* A checkpoint written elsewhere after one epoch, with some keys removed.
\* Its parameters carry the mark 0: training no invocation modelled here did.
Foreign(fields) ==
    [exists |-> TRUE, readable |-> TRUE, fields |-> fields, epoch |-> 1,
     model_state |-> <<0>>, optimizer_state |-> [lr_decays |-> 0, updates |-> 1],
     best_acc |-> R(1, 2), observed |-> R(1, 2)]

\* What cfg.resume names.
FileAt(files, path) ==
    CASE path = "latest"   -> files.latest
      [] path = "best"     -> files.best
      [] path = "corrupt"  -> [Foreign(AllFields) EXCEPT !.readable = FALSE]
      [] path = "no_epoch" -> Foreign(AllFields \ {"epoch"})
      [] path = "no_model" -> Foreign(AllFields \ {"model_state"})
      [] path = "no_optim" -> Foreign(AllFields \ {"optimizer_state"})
      [] OTHER             -> NoFile

\* cfg.resume is not None and cfg.resume.exists()
ResumeRequested(c, files) == c.resume # None /\ FileAt(files, c.resume).exists

\* load_checkpoint: torch.load, then the two load_state_dict calls, then
\* checkpoint.get("epoch", 0).  raised = an exception left the function.
load_checkpoint(file, m, opt) ==
    IF ~file.readable THEN
        [raised |-> TRUE, model |-> m, optimizer |-> opt, start_epoch |-> 0]
    ELSE IF "model_state" \notin file.fields THEN
        [raised |-> TRUE, model |-> m, optimizer |-> opt, start_epoch |-> 0]
    ELSE IF "optimizer_state" \notin file.fields THEN
        [raised |-> TRUE, model |-> [m EXCEPT !.params = file.model_state],
         optimizer |-> opt, start_epoch |-> 0]
    ELSE
        [raised |-> FALSE, model |-> [m EXCEPT !.params = file.model_state],
         optimizer |-> file.optimizer_state,
         start_epoch |-> IF "epoch" \in file.fields THEN file.epoch ELSE 0]

\* ------------------------------------------------------------- scheduler
\* StepLR(optimizer, step_size, gamma): the constructor performs the
\* initial step, leaving last_epoch = 0 and the learning rate untouched.
StepLR == [last_epoch |-> 0]

\* scheduler.last_epoch = start_epoch - 1
RewindScheduler(sched, start) == [sched EXCEPT !.last_epoch = start - 1]

\* scheduler.step(): last_epoch += 1, then the current learning rate is
\* multiplied by gamma when last_epoch is a non-zero multiple of step_size.
scheduler_step(sched, opt, step_size) ==
    LET last == sched.last_epoch + 1 IN
    [scheduler |-> [sched EXCEPT !.last_epoch = last],
     optimizer |-> IF last # 0 /\ last % step_size = 0
                   THEN [opt EXCEPT !.lr_decays = @ + 1]
                   ELSE opt]

\* --------------------------------------------------------------- the loop
\* Faulty variant: the range includes cfg.epochs.
LoopContinuesOffByOne(ep, epochs) == ep <= epochs

\* for epoch in range(start_epoch, cfg.epochs)
LoopContinues(ep, epochs) == ep < epochs

\* Parameters and optimizer after the training pass of 0-based epoch ep.
TrainPass(m, opt, ep) ==
    [model |-> [params |-> Append(m.params, ep + 1), training |-> TRUE],
     optimizer |-> [opt EXCEPT !.updates = @ + 1]]

\* Faulty variant: the evaluation pass also takes optimizer steps.
EvalPassUpdatesWeights(m, opt) ==
    [model |-> [params |-> Append(m.params, 0), training |-> FALSE],
     optimizer |-> [opt EXCEPT !.updates = @ + 1]]

\* Parameters and optimizer after the evaluation pass: model.eval(), then
\* forward passes under torch.no_grad() and no optimizer call.
EvalPass(m, opt) ==
    [model |-> [m EXCEPT !.training = FALSE], optimizer |-> opt]

\* is_best = val_metrics["acc"] > best_acc
IsBest(acc, best) == RLess(best, acc)

\* ------------------------------------------------------------------ state
VARIABLES
    inv,          \* number of the current invocation of the script
    cfg,          \* TrainConfig of the invocation: epochs, step_size, resume
    fs,           \* output directory: checkpoint.pth (latest), best.pth (best)
    pc,           \* position of run_training
    model, optimizer, scheduler,
    start_epoch, epoch, best_acc, val_metrics,
    accs,         \* history: validation accuracies of this invocation
    saves,        \* history: save_checkpoint calls of this invocation
    observed,     \* history: best accuracy of the epochs behind model
    m_loader, m_result   \* input and result of the metric computations

vars == <<inv, cfg, fs, pc, model, optimizer, scheduler, start_epoch, epoch,
          best_acc, val_metrics, accs, saves, observed, m_loader, m_result>>

metricVars == <<m_loader, m_result>>

NoMetrics == [loss |-> Zero, acc |-> Zero]

NoLoader == [dataset_len |-> 0, batches |-> <<>>]

\* State of run_training after lines 165-183 of a new process.
Construct(c) ==
    /\ cfg' = c
    /\ pc' = "start"
    /\ model' = build_model
    /\ optimizer' = SGD
    /\ scheduler' = StepLR
    /\ start_epoch' = 0
    /\ epoch' = 0
    /\ best_acc' = Zero
    /\ val_metrics' = NoMetrics
    /\ accs' = <<>>
    /\ saves' = <<>>
    /\ observed' = Zero

Init ==
    /\ inv = 1
    /\ cfg \in [epochs : EpochChoices, step_size : StepSizeChoices,
                resume : ResumeChoices]
    /\ fs = [latest |-> NoFile, best |-> NoFile]
    /\ pc = "start"
    /\ model = build_model
    /\ optimizer = SGD
    /\ scheduler = StepLR
    /\ start_epoch = 0
    /\ epoch = 0
    /\ best_acc = Zero
    /\ val_metrics = NoMetrics
    /\ accs = <<>>
    /\ saves = <<>>
    /\ observed = Zero
    /\ m_loader = NoLoader
    /\ m_result = [fn |-> "none", metrics |-> NoMetrics]

\* Lines 183-184, 189: no resume path, or no file at it.
SkipResume ==
    /\ pc = "start"
    /\ ~ResumeRequested(cfg, fs)
    /\ pc' = "loop"
    /\ UNCHANGED <<inv, cfg, fs, model, optimizer, scheduler, start_epoch, epoch,
                   best_acc, val_metrics, accs, saves, observed, metricVars>>

\* Lines 184-189: the checkpoint loads.
ResumeLoad ==
    /\ pc = "start"
    /\ ResumeRequested(cfg, fs)
    /\ LET file == FileAt(fs, cfg.resume)
           got == load_checkpoint(file, model, optimizer)
       IN /\ ~got.raised
          /\ model' = got.model
          /\ optimizer' = got.optimizer
          /\ start_epoch' = got.start_epoch
          /\ epoch' = got.start_epoch
          /\ scheduler' = RewindScheduler(scheduler, got.start_epoch)
          /\ observed' = file.observed
    /\ best_acc' = Zero
    /\ pc' = "loop"
    /\ UNCHANGED <<inv, cfg, fs, val_metrics, accs, saves, metricVars>>

\* Lines 184-186: load_checkpoint raises and the exception ends the process.
ResumeFail ==
    /\ pc = "start"
    /\ ResumeRequested(cfg, fs)
    /\ LET got == load_checkpoint(FileAt(fs, cfg.resume), model, optimizer)
       IN /\ got.raised
          /\ model' = got.model
          /\ optimizer' = got.optimizer
    /\ pc' = "aborted"
    /\ UNCHANGED <<inv, cfg, fs, scheduler, start_epoch, epoch, best_acc,
                   val_metrics, accs, saves, observed, metricVars>>

\* Lines 190-191: the loop takes another epoch and runs its training pass.
Train ==
    /\ pc = "loop"
    /\ LoopContinues(epoch, cfg.epochs)
    /\ LET got == TrainPass(model, optimizer, epoch)
       IN /\ model' = got.model
          /\ optimizer' = got.optimizer
    /\ pc' = "trained"
    /\ UNCHANGED <<inv, cfg, fs, scheduler, start_epoch, epoch, best_acc,
                   val_metrics, accs, saves, observed, metricVars>>

\* Line 192: the evaluation pass.
Evaluate ==
    /\ pc = "trained"
    /\ \E loader \in ValLoaders :
          /\ val_metrics' = evaluate(loader)
          /\ accs' = Append(accs, evaluate(loader).acc)
    /\ LET got == EvalPass(model, optimizer)
       IN /\ model' = got.model
          /\ optimizer' = got.optimizer
    /\ pc' = "evaluated"
    /\ UNCHANGED <<inv, cfg, fs, scheduler, start_epoch, epoch, best_acc,
                   saves, observed, metricVars>>

\* Line 193: scheduler.step().
SchedulerStep ==
    /\ pc = "evaluated"
    /\ LET got == scheduler_step(scheduler, optimizer, cfg.step_size)
       IN /\ scheduler' = got.scheduler
          /\ optimizer' = got.optimizer
    /\ pc' = "stepped"
    /\ UNCHANGED <<inv, cfg, fs, model, start_epoch, epoch, best_acc,
                   val_metrics, accs, saves, observed, metricVars>>

\* Lines 201-215: the comparison with best_acc and the "latest" save.
SaveLatest ==
    /\ pc = "stepped"
    /\ LET is_best == IsBest(val_metrics.acc, best_acc)
           best    == IF is_best THEN val_metrics.acc ELSE best_acc
           obs     == RMax(observed, val_metrics.acc)
       IN /\ best_acc' = best
          /\ observed' = obs
          /\ fs' = save_checkpoint(
                      fs, CheckpointState(epoch, model, optimizer, best, obs),
                      "latest")
          /\ saves' = Append(saves, <<"latest", epoch + 1>>)
          /\ IF is_best
             THEN pc' = "saved_latest" /\ epoch' = epoch
             ELSE pc' = "loop" /\ epoch' = epoch + 1
    /\ UNCHANGED <<inv, cfg, model, optimizer, scheduler, start_epoch,
                   val_metrics, accs, metricVars>>

\* Lines 215-225: the "best" save.
SaveBest ==
    /\ pc = "saved_latest"
    /\ fs' = save_checkpoint(
                fs, CheckpointState(epoch, model, optimizer, best_acc, observed),
                "best")
    /\ saves' = Append(saves, <<"best", epoch + 1>>)
    /\ pc' = "loop"
    /\ epoch' = epoch + 1
    /\ UNCHANGED <<inv, cfg, model, optimizer, scheduler, start_epoch, best_acc,
                   val_metrics, accs, observed, metricVars>>

\* Line 227: the loop is exhausted and the summary is printed.
Finish ==
    /\ pc = "loop"
    /\ ~LoopContinues(epoch, cfg.epochs)
    /\ pc' = "done"
    /\ UNCHANGED <<inv, cfg, fs, model, optimizer, scheduler, start_epoch, epoch,
                   best_acc, val_metrics, accs, saves, observed, metricVars>>

\* The process ends (it finished, it aborted, or it is terminated at any
\* point) and the script is invoked again on the same output directory with
\* the same hyperparameters; files are all that survives.
Restart ==
    /\ inv < MaxInvocations
    /\ inv' = inv + 1
    /\ \E r \in ResumeChoices, e \in EpochChoices :
          Construct([cfg EXCEPT !.resume = r, !.epochs = e])
    /\ UNCHANGED <<fs, metricVars>>

Step ==
    \/ SkipResume
    \/ ResumeLoad
    \/ ResumeFail
    \/ Train
    \/ Evaluate
    \/ SchedulerStep
    \/ SaveLatest
    \/ SaveBest
    \/ Finish

Next == Step \/ Restart

Spec == Init /\ [][Next]_vars

\* The running process is always scheduled; only Restart is external.
LiveSpec == Init /\ [][Next]_vars /\ WF_vars(Step)


\* ------------------------------------------- the metric computations alone
\* Every DataLoader over n = 1..MaxSamples examples with batch size
\* b = 1..MaxBatch, with every outcome per batch.
Loaders(n, b) ==
    { [dataset_len |-> n, batches |-> o] : o \in BatchOutcomes(BatchSizes(n, b)) }

MetricsInit ==
    /\ inv = 1
    /\ cfg = [epochs |-> MaxEpochs, step_size |-> 1, resume |-> None]
    /\ fs = [latest |-> NoFile, best |-> NoFile]
    /\ pc = "start"
    /\ model = build_model
    /\ optimizer = SGD
    /\ scheduler = StepLR
    /\ start_epoch = 0
    /\ epoch = 0
    /\ best_acc = Zero
    /\ val_metrics = NoMetrics
    /\ accs = <<>>
    /\ saves = <<>>
    /\ observed = Zero
    /\ \E n \in 1..MaxSamples, b \in 1..MaxBatch : m_loader \in Loaders(n, b)
    /\ m_result = [fn |-> "none", metrics |-> NoMetrics]

mainVars == <<inv, cfg, fs, pc, model, optimizer, scheduler, start_epoch, epoch,
              best_acc, val_metrics, accs, saves, observed>>

TrainMetrics ==
    /\ m_result.fn = "none"
    /\ m_result' = [fn |-> "train_one_epoch", metrics |-> train_one_epoch(m_loader)]
    /\ UNCHANGED <<m_loader, mainVars>>

EvalMetrics ==
    /\ m_result.fn = "none"
    /\ m_result' = [fn |-> "evaluate", metrics |-> evaluate(m_loader)]
    /\ UNCHANGED <<m_loader, mainVars>>

MetricsNext == TrainMetrics \/ EvalMetrics

MetricsSpec == MetricsInit /\ [][MetricsNext]_vars


\* ================================================================== claims
Range(seq) == { seq[i] : i \in 1..Len(seq) }

Seq1(k) == [i \in 1..k |-> i]

Max0(x) == IF x < 0 THEN 0 ELSE x

IsOwnEpoch(x) == x > 0

\* The epochs these invocations trained into the parameters, in order.
Executed(m) == SelectSeq(m.params, IsOwnEpoch)

\* Epochs of this invocation whose saves are over: the j-th epoch executed
\* is epoch start_epoch + j, and the counter moves past it after its saves.
Completed(j) == epoch >= start_epoch + j

BestWrites == { i \in 1..MaxEpochs + 1 : <<"best", i>> \in Range(saves) }

LatestWrites == { i \in 1..MaxEpochs + 1 : <<"latest", i>> \in Range(saves) }

RECURSIVE SumCorrect(_)
SumCorrect(batches) ==
    IF batches = <<>> THEN 0 ELSE batches[1].correct + SumCorrect(Tail(batches))

RECURSIVE SumSizes(_)
SumSizes(batches) ==
    IF batches = <<>> THEN 0 ELSE batches[1].n + SumSizes(Tail(batches))

RECURSIVE SumWeightedLoss(_)
SumWeightedLoss(batches) ==
    IF batches = <<>> THEN 0
    ELSE batches[1].loss * batches[1].n + SumWeightedLoss(Tail(batches))

\* The scheduler and optimizer of a run that never stopped, after k epochs.
RECURSIVE Uninterrupted(_, _)
Uninterrupted(k, step_size) ==
    IF k = 0 THEN [scheduler |-> StepLR, optimizer |-> SGD]
    ELSE LET before == Uninterrupted(k - 1, step_size)
         IN scheduler_step(before.scheduler, before.optimizer, step_size)

\* C1: best.pth is written at the end of an epoch exactly when that epoch's
\* validation accuracy is strictly greater than that of every earlier epoch
\* of the invocation (so always at its first epoch), and for the accuracies
\* 0.5, 0.4, 0.6, 0.6 it is written at epochs 1 and 3 only.
C1_BestIffStrictlyGreater ==
    /\ \A j \in 1..Len(accs) :
          Completed(j) =>
             ( (start_epoch + j \in BestWrites)
               <=> \A i \in 1..(j - 1) : RLess(accs[i], accs[j]) )
    /\ ( pc = "done" /\ start_epoch = 0
         /\ accs = <<R(1, 2), R(2, 5), R(3, 5), R(3, 5)>> )
       => BestWrites = {1, 3}

\* C2: in an invocation that resumed from the "latest" checkpoint of epoch
\* e (0 < e < epochs), every epoch starts with the number of decays applied
\* to the learning rate and the scheduler's counter that a run which never
\* stopped has at the start of that epoch.
C2_ResumeKeepsSchedule ==
    ( /\ cfg.resume = "latest"
      /\ pc = "loop"
      /\ start_epoch > 0
      /\ LoopContinues(epoch, cfg.epochs)
      /\ model.params = Seq1(epoch) )
    => /\ optimizer.lr_decays
            = Uninterrupted(epoch, cfg.step_size).optimizer.lr_decays
       /\ scheduler.last_epoch
            = Uninterrupted(epoch, cfg.step_size).scheduler.last_epoch

\* C3: an invocation that loaded the "latest" checkpoint of epoch e starts
\* at epoch e + 1, and the epochs trained by the invocations up to any point
\* are 1, 2, ... in order, each once, ending with 1..epochs when it is done.
C3_ResumeContinues ==
    ( cfg.resume = "latest" /\ start_epoch > 0 /\ pc \notin {"start", "aborted"} )
    => /\ (saves = <<>>) => start_epoch = fs.latest.epoch
       /\ (pc = "loop" /\ accs = <<>>) => epoch = start_epoch
       /\ (pc \in {"loop", "done"}) => Executed(model) = Seq1(epoch)
       /\ (pc \in {"trained", "evaluated", "stepped", "saved_latest"})
             => Executed(model) = Seq1(epoch + 1)
       /\ (pc = "done" /\ start_epoch <= cfg.epochs)
             => Executed(model) = Seq1(cfg.epochs)

C3_Witness ==
    /\ inv = 2
    /\ cfg.resume = "latest"
    /\ pc = "done"
    /\ start_epoch \in 1..(cfg.epochs - 1)
    /\ Executed(model) = Seq1(cfg.epochs)

\* C4: in an invocation that resumed from the "latest" checkpoint, every
\* write of best.pth stores a best_acc at least the one it overwrites.
C4_BestNeverDecreases ==
    [][ ( /\ cfg.resume = "latest"
          /\ start_epoch > 0
          /\ fs.best.exists
          /\ fs'.best # fs.best )
        => RLeq(fs.best.best_acc, fs'.best.best_acc) ]_vars

\* C5: the accuracy and the loss train_one_epoch and evaluate return are
\* sum(m_i * n_i) / sum(n_i) over the batches; the accuracy is the number
\* of correct predictions over the number of examples and lies in [0, 1].
C5_WeightedAverage ==
    m_result.fn # "none" =>
       /\ m_result.metrics.acc
             = R(SumCorrect(m_loader.batches), SumSizes(m_loader.batches))
       /\ m_result.metrics.loss
             = R(SumWeightedLoss(m_loader.batches), SumSizes(m_loader.batches))
       /\ RLeq(Zero, m_result.metrics.acc)
       /\ RLeq(m_result.metrics.acc, One)

\* A ragged last batch, batches of different accuracy and loss.
C5_Witness ==
    /\ m_result.fn = "evaluate"
    /\ Len(m_loader.batches) = 2
    /\ m_loader.batches[1].n = 3
    /\ m_loader.batches[2].n = 1
    /\ m_loader.batches[1].correct = 2
    /\ m_loader.batches[2].correct = 0
    /\ m_loader.batches[1].loss # m_loader.batches[2].loss
    /\ m_result.metrics.acc = R(1, 2)

\* C6: with a resume path whose file is absent, unreadable or lacks the
\* epoch, the model state or the optimizer state, the run aborts before it
\* executes an epoch or writes a checkpoint.
Defective(file) ==
    \/ ~file.exists
    \/ ~file.readable
    \/ ~({"epoch", "model_state", "optimizer_state"} \subseteq file.fields)

C6_LoadFailureIsFatal ==
    ( cfg.resume # None /\ saves = <<>> /\ Defective(FileAt(fs, cfg.resume)) )
    => pc \in {"start", "aborted"}

\* C7: the evaluation pass leaves the parameters, the optimizer state and
\* the scheduler as they were, and inside the epoch loop only the training
\* pass and the scheduler step change any of them.
LoopPositions == {"loop", "trained", "evaluated", "stepped", "saved_latest"}

C7_EvaluateFrame ==
    [][ /\ (pc = "trained" /\ pc' = "evaluated")
           => /\ model'.params = model.params
              /\ optimizer' = optimizer
              /\ scheduler' = scheduler
        /\ ( /\ inv' = inv
             /\ pc \in LoopPositions
             /\ <<model.params, optimizer, scheduler>>'
                   # <<model.params, optimizer, scheduler>> )
           => \/ (pc = "loop" /\ pc' = "trained")
              \/ (pc = "evaluated" /\ pc' = "stepped") ]_vars

C7_Witness ==
    /\ pc = "evaluated"
    /\ ~model.training
    /\ model.params = <<1, 2>>
    /\ optimizer.lr_decays = 1
    /\ val_metrics.acc = R(3, 5)

\* C8: when an epoch i of the invocation is over, checkpoint.pth was written
\* for every epoch executed and holds epoch i, the parameters, the optimizer
\* state and the controller's best_acc; best.pth, if this invocation wrote
\* it, holds an epoch no greater and the same best_acc.
C8_LatestEveryEpoch ==
    ( pc \in {"loop", "done"} /\ accs # <<>> )
    => /\ LatestWrites = (start_epoch + 1)..epoch
       /\ fs.latest.exists
       /\ fs.latest.epoch = epoch
       /\ fs.latest.model_state = model.params
       /\ fs.latest.optimizer_state = optimizer
       /\ fs.latest.best_acc = best_acc
       /\ BestWrites # {}
             => /\ fs.best.epoch <= fs.latest.epoch
                /\ fs.best.best_acc = fs.latest.best_acc

\* Two epochs over, the first improved and the second did not.
C8_Witness ==
    /\ pc = "loop"
    /\ Len(accs) = 2
    /\ RLess(accs[2], accs[1])
    /\ fs.latest.epoch = start_epoch + 2
    /\ fs.best.epoch = start_epoch + 1
    /\ BestWrites = {start_epoch + 1}

\* C9: at the end of an invocation started from scratch or resumed from
\* the "latest" checkpoint, the best accuracy reported is the greatest
\* validation accuracy of all epochs behind the final parameters.
C9_ReportsRunMaximum ==
    ( pc = "done" /\ cfg.resume \in {None, "latest"} ) => best_acc = observed

\* C10: an invocation whose start-up succeeded with start epoch s runs
\* max(0, epochs - s) epochs, each as training pass, evaluation pass,
\* scheduler step, "latest" save and conditional "best" save in this order,
\* and then is done unless the process is ended from outside; with
\* s >= epochs it runs no epoch and writes no checkpoint.
PhaseOrder ==
    {<<"start", "loop">>, <<"start", "aborted">>, <<"loop", "trained">>,
     <<"trained", "evaluated">>, <<"evaluated", "stepped">>,
     <<"stepped", "saved_latest">>, <<"stepped", "loop">>,
     <<"saved_latest", "loop">>, <<"loop", "done">>}

\* Steps the invocation has left at most: 5 per epoch still to run.
Measure ==
    LET left == Max0(cfg.epochs - epoch) IN
    CASE pc = "start"        -> 5 * cfg.epochs + 2
      [] pc = "loop"         -> 5 * left + 1
      [] pc = "trained"      -> 5 * left
      [] pc = "evaluated"    -> 5 * left - 1
      [] pc = "stepped"      -> 5 * left - 2
      [] pc = "saved_latest" -> 5 * left - 3
      [] OTHER               -> 0

C10_Terminates ==
    /\ [](pc = "done" =>
             /\ Len(accs) = Max0(cfg.epochs - start_epoch)
             /\ LatestWrites = (start_epoch + 1)..cfg.epochs
             /\ (start_epoch >= cfg.epochs => saves = <<>>))
    /\ [](pc \in LoopPositions => ENABLED Step)
    /\ [][ (inv' = inv /\ pc' # pc)
              => /\ <<pc, pc'>> \in PhaseOrder
                 /\ Measure' < Measure
                 /\ Measure' >= 0 ]_vars

\* The same under LiveSpec: the loop, once entered, reaches its end unless
\* the process is ended from outside.
C10_EventuallyDone ==
    \A i \in 1..MaxInvocations :
       (inv = i /\ pc = "loop") ~> (inv > i \/ pc = "done")

C10_Witness ==
    /\ pc = "done"
    /\ start_epoch > cfg.epochs
    /\ saves = <<>>
    /\ fs.latest.epoch = start_epoch

=============================================================================
